---- MODULE Spec2Model ----
(***************************************************************************)
(* The room game-state machine and action-resolution engine of CoupJS      *)
(* (server side).  One room is modelled.  Seats are numbered 1..N in list  *)
(* order (the code's index i is seat i+1) and a player's id is its seat;    *)
(* card positions in a hand are 1-based (the code's index k is k+1).        *)
(* The deck is a multiset: the code reshuffles with a random comparator,    *)
(* so a pop may return any card the deck holds.  gameLog, gameStats and     *)
(* the display names carry no control flow and are left out.                *)
(***************************************************************************)
EXTENDS Integers, Sequences, FiniteSets, TLC

\* ------------------------------------------------------------------ bounds
NumPlayers == 3
MaxTurns == 1
NetTurns == 1
StealTurns == 2
AssassinTurns == 1
MaxDisconnects == 1
CoupTurns == 2

NoPlayer == 0

\* the coins from which a player must coup
MandatoryCoup == 10

\* ------------------------------------------------------------- card catalog
CARDS == {"Duke", "Assassin", "Captain", "Ambassador", "Contessa"}
INQUISITOR_CARDS == {"Duke", "Assassin", "Captain", "Inquisitor", "Contessa"}
Roles == CARDS \cup INQUISITOR_CARDS
NoCard == "none"

Actions ==
  [ income      |-> [cost |-> 0, blockable |-> FALSE, blocker |-> {}, challengeable |-> FALSE, card |-> NoCard],
    foreignAid  |-> [cost |-> 0, blockable |-> TRUE, blocker |-> {"Duke"}, challengeable |-> FALSE, card |-> NoCard],
    tax         |-> [cost |-> 0, blockable |-> FALSE, blocker |-> {}, challengeable |-> TRUE, card |-> "Duke"],
    assassinate |-> [cost |-> 3, blockable |-> TRUE, blocker |-> {"Contessa"}, challengeable |-> TRUE, card |-> "Assassin"],
    steal       |-> [cost |-> 0, blockable |-> TRUE, blocker |-> {"Captain", "Ambassador", "Inquisitor"}, challengeable |-> TRUE, card |-> "Captain"],
    exchange    |-> [cost |-> 0, blockable |-> FALSE, blocker |-> {}, challengeable |-> TRUE, card |-> "Ambassador"],
    examine     |-> [cost |-> 0, blockable |-> FALSE, blocker |-> {}, challengeable |-> TRUE, card |-> "Inquisitor"],
    coup        |-> [cost |-> 7, blockable |-> FALSE, blocker |-> {}, challengeable |-> FALSE, card |-> NoCard] ]

ActionNames == DOMAIN Actions
TargetedActions == {"steal", "assassinate", "coup", "examine"}

\* ------------------------------------------------------------------- state
VARIABLES state, useInquisitor, players, deck, currentPlayerIndex,
          actionInProgress, pendingResponses, responseTimeout, timers,
          disconnectionTimers, eliminationOrder, winnerId, turns, disconnects,
          lastOp

vars == <<state, useInquisitor, players, deck, currentPlayerIndex,
          actionInProgress, pendingResponses, responseTimeout, timers,
          disconnectionTimers, eliminationOrder, winnerId, turns, disconnects,
          lastOp>>

\* room.actionInProgress = null
NoAction == [action |-> "null"]
\* a null timer handle; a handle names the declaration it was started for and
\* the place that started it
NoTimer == [act |-> 0, src |-> "none"]

\* the room as one value, so that the functions of the code compose
Cur ==
  [ state |-> state, useInquisitor |-> useInquisitor, players |-> players,
    deck |-> deck, currentPlayerIndex |-> currentPlayerIndex,
    actionInProgress |-> actionInProgress, pendingResponses |-> pendingResponses,
    responseTimeout |-> responseTimeout, timers |-> timers,
    disconnectionTimers |-> disconnectionTimers,
    eliminationOrder |-> eliminationOrder, winnerId |-> winnerId,
    turns |-> turns, disconnects |-> disconnects ]

Apply(s) ==
  /\ state' = s.state
  /\ useInquisitor' = s.useInquisitor
  /\ players' = s.players
  /\ deck' = s.deck
  /\ currentPlayerIndex' = s.currentPlayerIndex
  /\ actionInProgress' = s.actionInProgress
  /\ pendingResponses' = s.pendingResponses
  /\ responseTimeout' = s.responseTimeout
  /\ timers' = s.timers
  /\ disconnectionTimers' = s.disconnectionTimers
  /\ eliminationOrder' = s.eliminationOrder
  /\ winnerId' = s.winnerId
  /\ turns' = s.turns
  /\ disconnects' = s.disconnects

\* the seats of the room, in list order, and of the room a function works on
Players == DOMAIN players
Seats(s) == DOMAIN s.players

\* ----------------------------------------------------------------- helpers
\* Math.min that always answers its first argument
MinFirst(a, b) == a

Min(a, b) == IF a < b THEN a ELSE b

DeckSize(d) ==
  d["Duke"] + d["Assassin"] + d["Captain"] + d["Ambassador"] + d["Contessa"] + d["Inquisitor"]

\* the cards a deck.pop() can return
Pops(d) == {c \in Roles : d[c] > 0}
DeckPop(d, c) == [d EXCEPT ![c] = @ - 1]
DeckPush(d, c) == [d EXCEPT ![c] = @ + 1]

\* the results of [deck.pop(), deck.pop()]
PopPairs(d) == UNION { { <<c1, c2>> : c2 \in Pops(DeckPop(d, c1)) } : c1 \in Pops(d) }

RECURSIVE DeckPushAll(_, _)
DeckPushAll(d, cards) ==
  IF cards = <<>> THEN d ELSE DeckPushAll(DeckPush(d, Head(cards)), Tail(cards))

Unrevealed(pl) == {k \in 1..Len(pl.influences) : ~pl.influences[k].revealed}
HasCard(pl, card) == \E k \in Unrevealed(pl) : pl.influences[k].card = card
\* influences.findIndex(inf => !inf.revealed && inf.card === card)
FindIndex(pl, card) ==
  IF HasCard(pl, card)
  THEN CHOOSE k \in Unrevealed(pl) :
         /\ pl.influences[k].card = card
         /\ \A j \in Unrevealed(pl) : pl.influences[j].card = card => k <= j
  ELSE 0

\* the slots that hold the same card object as slot k (completeExchange can put
\* one object in two slots)
Slots(pl, k) == IF pl.alias THEN 1..Len(pl.influences) ELSE {k}
SetCard(pl, k, card) ==
  [pl EXCEPT !.influences = [j \in 1..Len(@) |-> IF j \in Slots(pl, k) THEN [@[j] EXCEPT !.card = card] ELSE @[j]]]
SetRevealed(pl, k) ==
  [pl EXCEPT !.influences = [j \in 1..Len(@) |-> IF j \in Slots(pl, k) THEN [@[j] EXCEPT !.revealed = TRUE] ELSE @[j]]]

AnyObligation(s) ==
  \E p \in Seats(s) :
     \/ s.players[p].mustRevealInfluence
     \/ s.players[p].mustChooseExchange
     \/ s.players[p].mustShowCardToExaminer
     \/ s.players[p].mustChooseExamine

\* ------------------------------------------------------------ construction
shuffleDeck(useInq) ==
  [c \in Roles |-> IF c \in (IF useInq THEN INQUISITOR_CARDS ELSE CARDS) THEN 3 ELSE 0]

NewPlayer ==
  [ coins |-> 2, influences |-> <<>>, alias |-> FALSE, alive |-> TRUE,
    disconnected |-> FALSE, hasLeft |-> FALSE,
    mustRevealInfluence |-> FALSE, influencesToLose |-> 0,
    mustChooseExchange |-> FALSE, exchangeCards |-> <<>>,
    mustChooseExamine |-> FALSE, examineTargetId |-> NoPlayer,
    mustShowCardToExaminer |-> FALSE, examinedBy |-> NoPlayer,
    examinedCard |-> NoCard, examinedCardIndexKind |-> "undefined",
    examinedCardIndex |-> 0 ]

\* the room once n players have joined it
createRoom(useInq, n) ==
  [ state |-> "lobby", useInquisitor |-> useInq,
    players |-> [p \in 1..n |-> NewPlayer],
    deck |-> [c \in Roles |-> 0], currentPlayerIndex |-> 1,
    actionInProgress |-> NoAction, pendingResponses |-> {},
    responseTimeout |-> NoTimer, timers |-> {}, disconnectionTimers |-> {},
    eliminationOrder |-> <<>>, winnerId |-> NoPlayer,
    turns |-> 0, disconnects |-> 0 ]

\* the hands a deal gives, seat by seat (the exchange role follows the variant)
DealHands(s) ==
  LET x == IF s.useInquisitor THEN "Inquisitor" ELSE "Ambassador"
      h == << <<"Duke", x>>, <<"Assassin", "Contessa">>, <<"Captain", "Duke">> >>
  IN [p \in Seats(s) |-> h[((p - 1) % 3) + 1]]

RECURSIVE DealFrom(_, _, _)
DealFrom(d, hands, p) ==
  IF p \notin DOMAIN hands THEN d
  ELSE DealFrom(DeckPop(DeckPop(d, hands[p][1]), hands[p][2]), hands, p + 1)

startGameError(s) ==
  IF Cardinality(Seats(s)) < 2 \/ Cardinality(Seats(s)) > 6 THEN "Need 2-6 players" ELSE "ok"

startGame(s, hands) ==
  [s EXCEPT !.deck = DealFrom(shuffleDeck(s.useInquisitor), hands, 1),
            !.state = "playing",
            !.currentPlayerIndex = 1,
            !.players = [p \in Seats(s) |->
               [s.players[p] EXCEPT
                  !.influences = << [card |-> hands[p][1], revealed |-> FALSE],
                                    [card |-> hands[p][2], revealed |-> FALSE] >>,
                  !.alias = FALSE, !.coins = 2, !.alive = TRUE]]]

\* ------------------------------------------------------------- turn control
\* clearActionAndTimeout that cancels the timers and keeps the action
clearActionAndTimeoutKeepsAction(s) ==
  LET h1 == s.responseTimeout
      h2 == IF s.actionInProgress.action # "null" THEN s.actionInProgress.responseTimeout ELSE NoTimer
  IN [s EXCEPT !.timers = @ \ {h1, h2},
               !.responseTimeout = NoTimer]

clearActionAndTimeout(s) ==
  LET h1 == s.responseTimeout
      h2 == IF s.actionInProgress.action # "null" THEN s.actionInProgress.responseTimeout ELSE NoTimer
  IN [s EXCEPT !.timers = @ \ {h1, h2},
               !.responseTimeout = NoTimer,
               !.actionInProgress = NoAction]

RECURSIVE SkipDead(_, _, _)
SkipDead(s, next, attempts) ==
  IF ~s.players[next].alive /\ attempts < Cardinality(Seats(s))
  THEN SkipDead(s, (next % Cardinality(Seats(s))) + 1, attempts + 1)
  ELSE next

nextTurn(s) ==
  IF \E p \in Seats(s) : s.players[p].mustChooseExchange THEN s
  ELSE IF \E p \in Seats(s) : s.players[p].mustRevealInfluence THEN s
  ELSE IF \E p \in Seats(s) : s.players[p].mustShowCardToExaminer THEN s
  ELSE [s EXCEPT !.currentPlayerIndex = SkipDead(s, (s.currentPlayerIndex % Cardinality(Seats(s))) + 1, 0)]

loseInfluence(s, p, count) ==
  IF Unrevealed(s.players[p]) # {}
  THEN [s EXCEPT !.players[p].influencesToLose = @ + count,
                 !.players[p].mustRevealInfluence = TRUE]
  ELSE s

RECURSIVE InsertByPlacement(_, _)
InsertByPlacement(sorted, e) ==
  IF sorted = <<>> THEN <<e>>
  ELSE IF Head(sorted).placement <= e.placement
       THEN <<Head(sorted)>> \o InsertByPlacement(Tail(sorted), e)
       ELSE <<e>> \o sorted

\* eliminationOrder.sort((a, b) => a.placement - b.placement), a stable sort
RECURSIVE SortByPlacement(_)
SortByPlacement(q) ==
  IF q = <<>> THEN <<>>
  ELSE InsertByPlacement(SortByPlacement(SubSeq(q, 1, Len(q) - 1)), q[Len(q)])

\* checkWinCondition that records the winner and leaves the room playing
checkWinConditionKeepsPlaying(s) ==
  LET alivePlayers == {p \in Seats(s) : s.players[p].alive} IN
  IF Cardinality(alivePlayers) = 1
  THEN LET winner == CHOOSE p \in alivePlayers : TRUE
           pushed == Append(s.eliminationOrder, [playerId |-> winner, placement |-> 1])
       IN [s EXCEPT !.winnerId = winner,
                    !.eliminationOrder = SortByPlacement(pushed)]
  ELSE s

checkWinCondition(s) ==
  LET alivePlayers == {p \in Seats(s) : s.players[p].alive} IN
  IF Cardinality(alivePlayers) = 1
  THEN LET winner == CHOOSE p \in alivePlayers : TRUE
           pushed == Append(s.eliminationOrder, [playerId |-> winner, placement |-> 1])
       IN [s EXCEPT !.winnerId = winner,
                    !.eliminationOrder = SortByPlacement(pushed),
                    !.state = "ended"]
  ELSE s

\* ------------------------------------------------------- action resolution
\* The result of resolveAction is a set: the exchange draw pops cards.
resolveAction(s) ==
  LET action == s.actionInProgress IN
  IF action.action = "null" THEN {s}
  ELSE
    LET actionData == Actions[action.action]
        actor == action.playerId
        target == action.targetId
        s1 == IF actionData.cost > 0
              THEN [s EXCEPT !.players[actor].coins = @ - actionData.cost]
              ELSE s
        finish(x) == nextTurn(clearActionAndTimeout(x))
        need == IF s.useInquisitor THEN 1 ELSE 2
    IN
    CASE action.action = "income" ->
           {finish([s1 EXCEPT !.players[actor].coins = @ + 1])}
      [] action.action = "foreignAid" ->
           {finish([s1 EXCEPT !.players[actor].coins = @ + 2])}
      [] action.action = "tax" ->
           {finish([s1 EXCEPT !.players[actor].coins = @ + 3])}
      [] action.action = "steal" ->
           IF target # NoPlayer
           THEN LET stolen == Min(2, s1.players[target].coins)
                    s2 == [s1 EXCEPT !.players[target].coins = @ - stolen]
                IN {finish([s2 EXCEPT !.players[actor].coins = @ + stolen])}
           ELSE {finish(s1)}
      [] action.action \in {"assassinate", "coup"} ->
           IF target # NoPlayer
           THEN {finish(loseInfluence(s1, target, 1))}
           ELSE {finish(s1)}
      [] action.action = "exchange" ->
           IF DeckSize(s1.deck) >= need
           THEN IF need = 1
                THEN { [s1 EXCEPT !.deck = DeckPop(@, c),
                                  !.players[actor].exchangeCards = <<c>>,
                                  !.players[actor].mustChooseExchange = TRUE,
                                  !.actionInProgress = NoAction]
                       : c \in Pops(s1.deck) }
                ELSE { [s1 EXCEPT !.deck = DeckPop(DeckPop(@, cc[1]), cc[2]),
                                  !.players[actor].exchangeCards = cc,
                                  !.players[actor].mustChooseExchange = TRUE,
                                  !.actionInProgress = NoAction]
                       : cc \in PopPairs(s1.deck) }
           ELSE {finish(s1)}
      [] action.action = "examine" ->
           IF target # NoPlayer /\ Unrevealed(s1.players[target]) # {}
           THEN LET s2 == [s1 EXCEPT !.players[actor].examineTargetId = target,
                                     !.players[actor].mustChooseExamine = TRUE]
                IN { [s2 EXCEPT !.players[target].mustShowCardToExaminer = TRUE,
                                !.players[target].examinedBy = actor,
                                !.actionInProgress = NoAction] }
           ELSE {finish(s1)}

\* performAction without its first guard on the pending action
performActionErrorNoPending(s, p, action, targetId) ==
  IF s.currentPlayerIndex # p THEN "Not your turn"
  ELSE IF AnyObligation(s) THEN "Waiting for player"
  ELSE IF action \notin ActionNames THEN "Invalid action"
  ELSE IF Actions[action].cost > 0 /\ s.players[p].coins < Actions[action].cost
         THEN "Not enough coins"
  ELSE IF s.players[p].coins >= 10 /\ action # "coup" THEN "Must coup with 10+ coins"
  ELSE IF action \in TargetedActions /\ targetId \notin Seats(s) THEN "Target required"
  ELSE "ok"

\* performAction without its guard on the cost of the action
performActionErrorNoCost(s, p, action, targetId) ==
  IF s.currentPlayerIndex # p THEN "Not your turn"
  ELSE IF s.actionInProgress.action # "null" THEN "Action already in progress"
  ELSE IF AnyObligation(s) THEN "Waiting for player"
  ELSE IF action \notin ActionNames THEN "Invalid action"
  ELSE IF s.players[p].coins >= 10 /\ action # "coup" THEN "Must coup with 10+ coins"
  ELSE IF action \in TargetedActions /\ targetId \notin Seats(s) THEN "Target required"
  ELSE "ok"

\* performAction without its guard on the coins of a player who must coup
performActionErrorNoMandatoryCoup(s, p, action, targetId) ==
  IF s.currentPlayerIndex # p THEN "Not your turn"
  ELSE IF s.actionInProgress.action # "null" THEN "Action already in progress"
  ELSE IF AnyObligation(s) THEN "Waiting for player"
  ELSE IF action \notin ActionNames THEN "Invalid action"
  ELSE IF Actions[action].cost > 0 /\ s.players[p].coins < Actions[action].cost
         THEN "Not enough coins"
  ELSE IF action \in TargetedActions /\ targetId \notin Seats(s) THEN "Target required"
  ELSE "ok"

performActionError(s, p, action, targetId) ==
  IF s.currentPlayerIndex # p THEN "Not your turn"
  ELSE IF s.actionInProgress.action # "null" THEN "Action already in progress"
  ELSE IF \E q \in Seats(s) : s.players[q].mustRevealInfluence
         THEN "Waiting for player to reveal influence"
  ELSE IF \E q \in Seats(s) : s.players[q].mustChooseExchange
         THEN "Waiting for exchange to complete"
  ELSE IF \E q \in Seats(s) : s.players[q].mustShowCardToExaminer
         THEN "Waiting for card to be shown"
  ELSE IF \E q \in Seats(s) : s.players[q].mustChooseExamine
         THEN "Waiting for examination to complete"
  ELSE IF action \notin ActionNames THEN "Invalid action"
  ELSE IF Actions[action].cost > 0 /\ s.players[p].coins < Actions[action].cost
         THEN "Not enough coins"
  ELSE IF s.players[p].coins >= 10 /\ action # "coup" THEN "Must coup with 10+ coins"
  ELSE IF action \in TargetedActions /\ targetId \notin Seats(s) THEN "Target required"
  ELSE "ok"

\* performAction that takes the cost of the action at the declaration
performActionCharges(s, p, action, targetId) ==
  LET actionData == Actions[action]
      serial == s.turns + 1
      blockers == IF actionData.blockable /\ s.useInquisitor
                  THEN actionData.blocker \ {"Ambassador"} ELSE actionData.blocker
      s0 == [s EXCEPT !.timers = @ \ {s.responseTimeout}, !.responseTimeout = NoTimer,
                      !.players[p].coins = @ - actionData.cost,
                      !.turns = serial]
      eligibleResponders ==
        {q \in Seats(s) : s.players[q].alive /\ q # p /\ ~s.players[q].disconnected}
      targeted == actionData.blockable /\ targetId # NoPlayer
      waits == actionData.challengeable \/ actionData.blockable
      a0 == [ action |-> action, playerId |-> p, targetId |-> targetId,
              canChallenge |-> actionData.challengeable,
              canBlock |-> actionData.blockable, blocker |-> blockers,
              responses |-> [q \in Seats(s) |-> "none"], phase |-> "waiting",
              totalResponders |-> IF waits THEN Cardinality(eligibleResponders) ELSE 0,
              respondedCount |-> 0,
              blockableByTarget |-> waits /\ targeted,
              targetCanBlock |-> IF waits /\ targeted THEN targetId ELSE NoPlayer,
              pausedForDisconnection |-> FALSE,
              blockerId |-> NoPlayer, blockCard |-> NoCard,
              responseTimeout |-> NoTimer, serial |-> serial ]
      s1 == [s0 EXCEPT !.actionInProgress = a0]
  IN
  IF waits
  THEN LET s2 == [s1 EXCEPT !.pendingResponses = eligibleResponders] IN
       IF eligibleResponders = {} THEN resolveAction(s2)
       ELSE IF targetId # NoPlayer /\ s.players[targetId].disconnected
       THEN { [s2 EXCEPT !.actionInProgress.pausedForDisconnection = TRUE] }
       ELSE LET h == [act |-> serial, src |-> "performAction"] IN
            { [s2 EXCEPT !.actionInProgress.responseTimeout = h,
                         !.responseTimeout = h,
                         !.timers = @ \cup {h}] }
  ELSE resolveAction(s1)

performAction(s, p, action, targetId) ==
  LET actionData == Actions[action]
      serial == s.turns + 1
      blockers == IF actionData.blockable /\ s.useInquisitor
                  THEN actionData.blocker \ {"Ambassador"} ELSE actionData.blocker
      s0 == [s EXCEPT !.timers = @ \ {s.responseTimeout}, !.responseTimeout = NoTimer,
                      !.turns = serial]
      eligibleResponders ==
        {q \in Seats(s) : s.players[q].alive /\ q # p /\ ~s.players[q].disconnected}
      targeted == actionData.blockable /\ targetId # NoPlayer
      waits == actionData.challengeable \/ actionData.blockable
      a0 == [ action |-> action, playerId |-> p, targetId |-> targetId,
              canChallenge |-> actionData.challengeable,
              canBlock |-> actionData.blockable, blocker |-> blockers,
              responses |-> [q \in Seats(s) |-> "none"], phase |-> "waiting",
              totalResponders |-> IF waits THEN Cardinality(eligibleResponders) ELSE 0,
              respondedCount |-> 0,
              blockableByTarget |-> waits /\ targeted,
              targetCanBlock |-> IF waits /\ targeted THEN targetId ELSE NoPlayer,
              pausedForDisconnection |-> FALSE,
              blockerId |-> NoPlayer, blockCard |-> NoCard,
              responseTimeout |-> NoTimer, serial |-> serial ]
      s1 == [s0 EXCEPT !.actionInProgress = a0]
  IN
  IF waits
  THEN LET s2 == [s1 EXCEPT !.pendingResponses = eligibleResponders] IN
       IF eligibleResponders = {} THEN resolveAction(s2)
       ELSE IF targetId # NoPlayer /\ s.players[targetId].disconnected
       THEN { [s2 EXCEPT !.actionInProgress.pausedForDisconnection = TRUE] }
       ELSE LET h == [act |-> serial, src |-> "performAction"] IN
            { [s2 EXCEPT !.actionInProgress.responseTimeout = h,
                         !.responseTimeout = h,
                         !.timers = @ \cup {h}] }
  ELSE resolveAction(s1)

\* clearTimeout(action.responseTimeout); action.responseTimeout = null
ClearActionTimer(s) ==
  [s EXCEPT !.timers = @ \ {s.actionInProgress.responseTimeout},
            !.actionInProgress.responseTimeout = NoTimer]

\* "returns the card and draws a new one": pop first, then put the shown card back
SwapWithDeck(s, p, card) ==
  LET k == FindIndex(s.players[p], card) IN
  IF k # 0 /\ DeckSize(s.deck) > 0
  THEN { [s EXCEPT !.players[p] = SetCard(@, k, c),
                   !.deck = DeckPush(DeckPop(@, c), card)] : c \in Pops(s.deck) }
  ELSE {s}

handleChallenge(s, challengerId) ==
  LET action == s.actionInProgress
      actor == action.playerId
      actionData == Actions[action.action]
      s0 == ClearActionTimer(s)
  IN
  IF HasCard(s0.players[actor], actionData.card)
  THEN UNION { resolveAction(x) :
                 x \in SwapWithDeck(loseInfluence(s0, challengerId, 1), actor, actionData.card) }
  ELSE { nextTurn(clearActionAndTimeout(loseInfluence(s0, actor, 1))) }

handleBlock(s, blockerId, blockCard) ==
  LET eligibleChallengersList ==
        {q \in Seats(s) : s.players[q].alive /\ q # blockerId /\ ~s.players[q].disconnected}
      s1 == [s EXCEPT !.actionInProgress.phase = "block",
                      !.actionInProgress.blockerId = blockerId,
                      !.actionInProgress.blockCard = blockCard,
                      !.actionInProgress.totalResponders = Cardinality(eligibleChallengersList),
                      !.actionInProgress.respondedCount = 0,
                      !.pendingResponses = eligibleChallengersList]
      hasDisconnectedChallengers ==
        \E q \in Seats(s) : s.players[q].alive /\ q # blockerId /\ s.players[q].disconnected
      h == [act |-> s.actionInProgress.serial, src |-> "handleBlock"]
  IN
  IF eligibleChallengersList = {} THEN nextTurn(clearActionAndTimeout(s1))
  ELSE IF hasDisconnectedChallengers
  THEN [s1 EXCEPT !.actionInProgress.pausedForDisconnection = TRUE]
  ELSE [s1 EXCEPT !.timers = (@ \ {s1.responseTimeout}) \cup {h},
                  !.actionInProgress.responseTimeout = h,
                  !.responseTimeout = h]

respondToActionError(s, p, response) ==
  IF s.actionInProgress.action = "null" THEN "Invalid response"
  ELSE IF p \notin s.pendingResponses THEN "Not eligible to respond"
  ELSE IF s.actionInProgress.responses[p] # "none" THEN "Already responded"
  ELSE IF s.actionInProgress.phase = "waiting" /\ s.actionInProgress.playerId = p
         THEN "Cannot respond to your own action"
  ELSE IF s.actionInProgress.phase = "block" /\ s.actionInProgress.blockerId = p
         THEN "Cannot respond to your own block"
  ELSE IF response.type = "block" /\ s.actionInProgress.blockableByTarget
          /\ p # s.actionInProgress.targetCanBlock
         THEN "Only the target can block this action"
  ELSE "ok"

\* the pass branch: pause for a disconnected player instead of resolving
PauseForDisconnection(s) ==
  IF ~s.actionInProgress.pausedForDisconnection
  THEN ClearActionTimer([s EXCEPT !.actionInProgress.pausedForDisconnection = TRUE])
  ELSE s

respondToAction(s, p, response) ==
  LET pending == s.pendingResponses \ {p}
      s1 == [s EXCEPT !.actionInProgress.responses[p] = response.type,
                      !.pendingResponses = pending,
                      !.actionInProgress.respondedCount =
                          s.actionInProgress.totalResponders - Cardinality(pending)]
      a == s1.actionInProgress
  IN
  CASE response.type = "challenge" -> handleChallenge(s1, p)
    [] response.type = "block" -> {handleBlock(s1, p, response.blockCard)}
    [] response.type = "pass" ->
         IF a.phase = "block"
         THEN IF pending = {}
              THEN IF ~(\E q \in Seats(s) : s1.players[q].alive /\ q # a.blockerId
                                           /\ s1.players[q].disconnected)
                   THEN {nextTurn(clearActionAndTimeout(s1))}
                   ELSE {PauseForDisconnection(s1)}
              ELSE {s1}
         ELSE IF pending = {}
              THEN IF ~(a.targetId # NoPlayer /\ s1.players[a.targetId].disconnected)
                   THEN resolveAction(s1)
                   ELSE {PauseForDisconnection(s1)}
              ELSE {s1}

challengeBlockError(s, p) ==
  IF s.actionInProgress.action = "null" THEN "TypeError"
  ELSE IF s.actionInProgress.blockerId = NoPlayer \/ s.actionInProgress.blockCard = NoCard
         THEN "Invalid block challenge"
  ELSE IF p = s.actionInProgress.blockerId THEN "Cannot challenge your own block"
  ELSE "ok"

\* challengeBlock that drops the action when the block turns out a bluff
challengeBlockNoEffect(s, p) ==
  LET action == s.actionInProgress
      blocker == action.blockerId
      s0 == ClearActionTimer(s)
  IN
  IF HasCard(s0.players[blocker], action.blockCard)
  THEN { nextTurn(clearActionAndTimeout(x)) :
           x \in SwapWithDeck(loseInfluence(s0, p, 1), blocker, action.blockCard) }
  ELSE { nextTurn(clearActionAndTimeout(loseInfluence(s0, blocker, 1))) }

challengeBlock(s, p) ==
  LET action == s.actionInProgress
      blocker == action.blockerId
      s0 == ClearActionTimer(s)
  IN
  IF HasCard(s0.players[blocker], action.blockCard)
  THEN { nextTurn(clearActionAndTimeout(x)) :
           x \in SwapWithDeck(loseInfluence(s0, p, 1), blocker, action.blockCard) }
  ELSE resolveAction(loseInfluence(s0, blocker, 1))

\* ------------------------------------------------- obligations and forfeits
\* the entry pushed for a player who is being eliminated
EliminationEntry(s, p) ==
  [ playerId |-> p,
    placement |-> Cardinality({q \in Seats(s) : s.players[q].alive /\ q # p}) + 1 ]

revealInfluenceError(s, p, cardIndex) ==
  IF ~s.players[p].mustRevealInfluence THEN "Not required to reveal influence"
  ELSE IF cardIndex < 1 \/ cardIndex > Len(s.players[p].influences) THEN "Invalid card index"
  ELSE IF s.players[p].influences[cardIndex].revealed THEN "Card already revealed"
  ELSE "ok"

revealInfluence(s, p, cardIndex) ==
  LET toLose == (IF s.players[p].influencesToLose = 0 THEN 1 ELSE s.players[p].influencesToLose) - 1
      s1 == [s EXCEPT !.players[p] = [SetRevealed(@, cardIndex) EXCEPT !.influencesToLose = toLose]]
  IN
  IF Unrevealed(s1.players[p]) = {}
  THEN LET s2 == [s1 EXCEPT !.players[p].alive = FALSE,
                            !.players[p].mustRevealInfluence = FALSE,
                            !.players[p].influencesToLose = 0,
                            !.eliminationOrder = Append(@, EliminationEntry(s1, p))]
       IN checkWinCondition(s2)
  ELSE IF toLose > 0 THEN s1
  ELSE LET s2 == [s1 EXCEPT !.players[p].mustRevealInfluence = FALSE] IN
       IF ~(\E q \in Seats(s) : s2.players[q].mustRevealInfluence)
       THEN nextTurn([s2 EXCEPT !.actionInProgress = NoAction])
       ELSE s2

\* allCards: the hand followed by the drawn cards, as card objects
AllCards(pl) ==
  pl.influences \o [k \in 1..Len(pl.exchangeCards) |-> [card |-> pl.exchangeCards[k], revealed |-> FALSE]]

completeExchangeError(s, p, keepIndices) ==
  IF ~s.players[p].mustChooseExchange THEN "Not in exchange mode"
  ELSE IF Len(keepIndices) # Len(s.players[p].influences) THEN "Must choose exactly N cards to keep"
  ELSE IF \E i \in 1..Len(keepIndices) :
            keepIndices[i] < 1 \/ keepIndices[i] > Len(AllCards(s.players[p]))
         THEN "Invalid card indices"
  ELSE "ok"

RECURSIVE CardsAt(_, _, _)
CardsAt(all, k, kept) ==
  IF k > Len(all) THEN <<>>
  ELSE (IF k \in kept THEN <<>> ELSE <<all[k].card>>) \o CardsAt(all, k + 1, kept)

\* two kept slots hold one object when they name the same index, or two slots
\* of a hand that already held one object twice
SameObject(pl, i, j) ==
  \/ i = j
  \/ pl.alias /\ i <= Len(pl.influences) /\ j <= Len(pl.influences)

completeExchange(s, p, keepIndices) ==
  LET pl == s.players[p]
      allCards == AllCards(pl)
      keptCards == [i \in 1..Len(keepIndices) |-> allCards[keepIndices[i]]]
      returnedCards == CardsAt(allCards, 1, {keepIndices[i] : i \in 1..Len(keepIndices)})
      alias == Len(keepIndices) = 2 /\ SameObject(pl, keepIndices[1], keepIndices[2])
  IN nextTurn([s EXCEPT !.deck = DeckPushAll(@, returnedCards),
                        !.players[p].influences = keptCards,
                        !.players[p].alias = alias,
                        !.players[p].exchangeCards = <<>>,
                        !.players[p].mustChooseExchange = FALSE])

showCardToExaminerError(s, p, cardIndex) ==
  IF ~s.players[p].mustShowCardToExaminer THEN "Not required to show card"
  ELSE IF cardIndex < 1 \/ cardIndex > Len(s.players[p].influences) THEN "Invalid card index"
  ELSE IF s.players[p].influences[cardIndex].revealed THEN "Cannot show revealed card"
  ELSE "ok"

showCardToExaminer(s, p, cardIndex) ==
  LET examiner == s.players[p].examinedBy
      s1 == IF examiner # NoPlayer
            THEN [s EXCEPT !.players[examiner].examinedCard = s.players[p].influences[cardIndex].card,
                           !.players[examiner].examinedCardIndexKind = "number",
                           !.players[examiner].examinedCardIndex = cardIndex]
            ELSE s
  IN [s1 EXCEPT !.players[p].mustShowCardToExaminer = FALSE,
                !.players[p].examinedBy = NoPlayer]

\* "TypeError": target.influences[null].revealed, when a forced exchange is asked
\* for with the index the previous examine left null
completeExamineError(s, p, forceExchange) ==
  IF ~s.players[p].mustChooseExamine THEN "Not in examine mode"
  ELSE IF s.players[p].examineTargetId = NoPlayer THEN "Target not found"
  ELSE IF forceExchange /\ DeckSize(s.deck) > 0 /\ s.players[p].examinedCardIndexKind = "null"
         THEN "TypeError"
  ELSE "ok"

completeExamine(s, p, forceExchange) ==
  LET pl == s.players[p]
      target == pl.examineTargetId
      k == pl.examinedCardIndex
      swapped ==
        IF forceExchange /\ DeckSize(s.deck) > 0 /\ pl.examinedCardIndexKind = "number"
           /\ ~s.players[target].influences[k].revealed
        THEN { [s EXCEPT !.players[target] = SetCard(@, k, c),
                         !.deck = DeckPush(DeckPop(@, c), s.players[target].influences[k].card)]
               : c \in Pops(s.deck) }
        ELSE {s}
  IN { nextTurn([x EXCEPT !.players[p].examineTargetId = NoPlayer,
                          !.players[p].mustChooseExamine = FALSE,
                          !.players[p].examinedCard = NoCard,
                          !.players[p].examinedCardIndexKind = "null",
                          !.players[p].examinedCardIndex = 0]) : x \in swapped }

\* the forfeit both leaveRoom and the grace-period timer perform
Forfeit(s, p, viaLeave) ==
  LET pl == s.players[p]
      s1 == [s EXCEPT !.players[p].hasLeft = TRUE,
                      !.players[p].influences = [k \in 1..Len(@) |-> [@[k] EXCEPT !.revealed = TRUE]],
                      !.eliminationOrder = IF pl.alive THEN Append(@, EliminationEntry(s, p)) ELSE @]
      s2 == [s1 EXCEPT !.players[p].alive = FALSE,
                       !.players[p].disconnected = IF viaLeave THEN TRUE ELSE @,
                       !.players[p].mustRevealInfluence = FALSE,
                       !.players[p].mustChooseExchange = FALSE,
                       !.players[p].mustChooseExamine = FALSE,
                       !.players[p].mustShowCardToExaminer = FALSE,
                       !.players[p].influencesToLose = 0]
      s3 == checkWinCondition(s2)
  IN IF s3.currentPlayerIndex = p
     THEN nextTurn([s3 EXCEPT !.actionInProgress = NoAction])
     ELSE s3

\* socket.on('leaveRoom') of a player, room.state === 'playing'
leaveRoom(s, p) == Forfeit(s, p, TRUE)

\* socket.on('disconnect') of a player, room.state === 'playing' && !hasLeft
disconnect(s, p) ==
  [s EXCEPT !.players[p].disconnected = TRUE,
            !.disconnectionTimers = @ \cup {p},
            !.disconnects = @ + 1]

\* the forfeitTimer callback
forfeitTimer(s, p) ==
  LET s1 == IF s.players[p].disconnected THEN Forfeit(s, p, FALSE) ELSE s
  IN [s1 EXCEPT !.disconnectionTimers = @ \ {p}]

attemptReconnectError(s, p) ==
  IF s.players[p].hasLeft THEN "You have left this game" ELSE "ok"

\* attemptReconnect that leaves the forfeit timer of the player running
attemptReconnectKeepsTimer(s, p) ==
  LET s1 == [s EXCEPT !.players[p].disconnected = FALSE]
      a == s1.actionInProgress
  IN
  IF a.action # "null" /\ a.pausedForDisconnection
  THEN IF a.phase = "waiting"
       THEN IF a.targetId = p
               /\ ~(\E q \in Seats(s) :
                      /\ s1.players[q].alive /\ q # a.playerId /\ s1.players[q].disconnected
                      /\ (a.targetId = NoPlayer \/ q = a.targetId))
            THEN LET h == [act |-> a.serial, src |-> "resumeWaiting"] IN
                 [s1 EXCEPT !.actionInProgress.pausedForDisconnection = FALSE,
                            !.actionInProgress.responseTimeout = h,
                            !.timers = @ \cup {h}]
            ELSE s1
       ELSE IF a.phase = "block"
               /\ ~(\E q \in Seats(s) :
                      s1.players[q].alive /\ q # a.blockerId /\ s1.players[q].disconnected)
            THEN LET h == [act |-> a.serial, src |-> "resumeBlock"] IN
                 [s1 EXCEPT !.actionInProgress.pausedForDisconnection = FALSE,
                            !.actionInProgress.responseTimeout = h,
                            !.timers = @ \cup {h}]
            ELSE s1
  ELSE s1

attemptReconnect(s, p) ==
  LET s1 == [s EXCEPT !.disconnectionTimers = @ \ {p},
                      !.players[p].disconnected = FALSE]
      a == s1.actionInProgress
  IN
  IF a.action # "null" /\ a.pausedForDisconnection
  THEN IF a.phase = "waiting"
       THEN IF a.targetId = p
               /\ ~(\E q \in Seats(s) :
                      /\ s1.players[q].alive /\ q # a.playerId /\ s1.players[q].disconnected
                      /\ (a.targetId = NoPlayer \/ q = a.targetId))
            THEN LET h == [act |-> a.serial, src |-> "resumeWaiting"] IN
                 [s1 EXCEPT !.actionInProgress.pausedForDisconnection = FALSE,
                            !.actionInProgress.responseTimeout = h,
                            !.timers = @ \cup {h}]
            ELSE s1
       ELSE IF a.phase = "block"
               /\ ~(\E q \in Seats(s) :
                      s1.players[q].alive /\ q # a.blockerId /\ s1.players[q].disconnected)
            THEN LET h == [act |-> a.serial, src |-> "resumeBlock"] IN
                 [s1 EXCEPT !.actionInProgress.pausedForDisconnection = FALSE,
                            !.actionInProgress.responseTimeout = h,
                            !.timers = @ \cup {h}]
            ELSE s1
  ELSE s1

\* does the callback of timer h act in s (its guard on the pending action)
TimerActs(s, h) ==
  /\ s.actionInProgress.action # "null"
  /\ s.actionInProgress.phase =
       (IF h.src \in {"performAction", "resumeWaiting"} THEN "waiting" ELSE "block")

\* the callbacks with the block timers resolving the action like the others
responseTimerResolves(s, h) ==
  LET s1 == [s EXCEPT !.timers = @ \ {h}] IN
  IF ~TimerActs(s1, h) THEN {s1} ELSE resolveAction(s1)

\* the setTimeout callbacks of performAction, handleBlock and attemptReconnect
responseTimer(s, h) ==
  LET s1 == [s EXCEPT !.timers = @ \ {h}] IN
  IF ~TimerActs(s1, h) THEN {s1}
  ELSE IF h.src \in {"performAction", "resumeWaiting"} THEN resolveAction(s1)
  ELSE IF h.src = "handleBlock" THEN {nextTurn(clearActionAndTimeout(s1))}
  ELSE {nextTurn([s1 EXCEPT !.actionInProgress = NoAction])}

\* ------------------------------------------------------------------- views
\* the action sent to a client: actionInProgress without its timer handle
CleanAction(a) == [f \in DOMAIN a \ {"responseTimeout", "serial"} |-> a[f]]

\* what a face-down card looks like: { revealed: false }
FaceDown == [card |-> NoCard, revealed |-> FALSE]

\* one entry of the players list of a view, for the player behind the socket
\* (mine) or for anybody else
PlayerView(pl, mine, isSpectator, influences) ==
  [ coins |-> pl.coins, influenceCount |-> Len(pl.influences),
    disconnected |-> pl.disconnected, hasLeft |-> pl.hasLeft,
    influences |-> influences,
    alive |-> pl.alive, mustRevealInfluence |-> pl.mustRevealInfluence,
    influencesToLose |-> pl.influencesToLose,
    mustChooseExchange |-> pl.mustChooseExchange,
    mustChooseExamine |-> pl.mustChooseExamine,
    mustShowCardToExaminer |-> pl.mustShowCardToExaminer,
    examineTargetId |-> pl.examineTargetId,
    examinedCard |-> IF mine /\ ~isSpectator THEN pl.examinedCard ELSE NoCard,
    exchangeCards |-> IF mine /\ ~isSpectator THEN pl.exchangeCards ELSE <<>>,
    isMe |-> mine /\ ~isSpectator ]

\* a view that leaves every hand face up
getPublicGameStateFaceUp(s, observer, isSpectator) ==
  [ state |-> s.state, useInquisitor |-> s.useInquisitor,
    deckSize |-> DeckSize(s.deck), isSpectator |-> isSpectator,
    players |-> [p \in Seats(s) |->
                   PlayerView(s.players[p], p = observer, isSpectator, s.players[p].influences)],
    currentPlayerIndex |-> s.currentPlayerIndex,
    actionInProgress |-> CleanAction(s.actionInProgress),
    myPlayerId |-> observer ]

\* observer is the seat behind the socket, NoPlayer for a spectator's socket
getPublicGameState(s, observer, isSpectator) ==
  [ state |-> s.state, useInquisitor |-> s.useInquisitor,
    deckSize |-> DeckSize(s.deck), isSpectator |-> isSpectator,
    players |-> [p \in Seats(s) |->
                   LET pl == s.players[p]
                       shown == IF (p = observer /\ ~isSpectator) \/ isSpectator
                                THEN pl.influences
                                ELSE [k \in 1..Len(pl.influences) |->
                                        IF pl.influences[k].revealed
                                        THEN pl.influences[k] ELSE FaceDown]
                   IN PlayerView(pl, p = observer, isSpectator, shown)],
    currentPlayerIndex |-> s.currentPlayerIndex,
    actionInProgress |-> CleanAction(s.actionInProgress),
    myPlayerId |-> observer ]

\* ------------------------------------------------------------------ actions
\* An intent reaches the room through a live socket: a player whose socket
\* is gone (disconnected) or who left the room sends none.
Connected(p) == ~players[p].disconnected /\ ~players[p].hasLeft

InitRoom(r) ==
  /\ state = r.state
  /\ useInquisitor = r.useInquisitor
  /\ players = r.players
  /\ deck = r.deck
  /\ currentPlayerIndex = r.currentPlayerIndex
  /\ actionInProgress = r.actionInProgress
  /\ pendingResponses = r.pendingResponses
  /\ responseTimeout = r.responseTimeout
  /\ timers = r.timers
  /\ disconnectionTimers = r.disconnectionTimers
  /\ eliminationOrder = r.eliminationOrder
  /\ winnerId = r.winnerId
  /\ turns = r.turns
  /\ disconnects = r.disconnects
  /\ lastOp = [op |-> "createRoom", phase |-> "idle"]

\* lastOp records the last operation of the game engine the room accepted and
\* the phase the room was in when it came
PhaseNow == IF actionInProgress = NoAction THEN "idle" ELSE actionInProgress.phase
Did(op) == lastOp' = [op |-> op, phase |-> PhaseNow]

\* the clients offer Start in the lobby only
StartGame ==
  /\ state = "lobby"
  /\ startGameError(Cur) = "ok"
  /\ Apply(startGame(Cur, DealHands(Cur)))
  /\ Did("startGame")

PerformAction(p, action, targetId) ==
  /\ state # "lobby"
  /\ Connected(p)
  /\ IF performActionError(Cur, p, action, targetId) # "ok"
     THEN UNCHANGED vars
     ELSE \E s2 \in performAction(Cur, p, action, targetId) : (Apply(s2) /\ Did("performAction"))

RespondToAction(p, response) ==
  /\ state # "lobby"
  /\ Connected(p)
  /\ IF respondToActionError(Cur, p, response) # "ok"
     THEN UNCHANGED vars
     ELSE \E s2 \in respondToAction(Cur, p, response) : (Apply(s2) /\ Did(response.type))

ChallengeBlock(p) ==
  /\ state # "lobby"
  /\ Connected(p)
  /\ IF challengeBlockError(Cur, p) # "ok"
     THEN UNCHANGED vars
     ELSE \E s2 \in challengeBlock(Cur, p) : (Apply(s2) /\ Did("challengeBlock"))

RevealInfluence(p, cardIndex) ==
  /\ state # "lobby"
  /\ Connected(p)
  /\ IF revealInfluenceError(Cur, p, cardIndex) # "ok"
     THEN UNCHANGED vars
     ELSE (Apply(revealInfluence(Cur, p, cardIndex)) /\ Did("revealInfluence"))

CompleteExchange(p, keepIndices) ==
  /\ state # "lobby"
  /\ Connected(p)
  /\ IF completeExchangeError(Cur, p, keepIndices) # "ok"
     THEN UNCHANGED vars
     ELSE (Apply(completeExchange(Cur, p, keepIndices)) /\ Did("completeExchange"))

ShowCardToExaminer(p, cardIndex) ==
  /\ state # "lobby"
  /\ Connected(p)
  /\ IF showCardToExaminerError(Cur, p, cardIndex) # "ok"
     THEN UNCHANGED vars
     ELSE (Apply(showCardToExaminer(Cur, p, cardIndex)) /\ Did("showCardToExaminer"))

CompleteExamine(p, forceExchange) ==
  /\ state # "lobby"
  /\ Connected(p)
  /\ IF completeExamineError(Cur, p, forceExchange) # "ok"
     THEN UNCHANGED vars
     ELSE \E s2 \in completeExamine(Cur, p, forceExchange) : (Apply(s2) /\ Did("completeExamine"))

LeaveRoom(p) ==
  /\ state = "playing"
  /\ Connected(p)
  /\ Apply(leaveRoom(Cur, p))
  /\ UNCHANGED lastOp

Disconnect(p) ==
  /\ state = "playing"
  /\ Connected(p)
  /\ disconnects < MaxDisconnects
  /\ Apply(disconnect(Cur, p))
  /\ UNCHANGED lastOp

AttemptReconnect(p) ==
  /\ players[p].disconnected
  /\ attemptReconnectError(Cur, p) = "ok"
  /\ Apply(attemptReconnect(Cur, p))
  /\ UNCHANGED lastOp

ForfeitTimer(p) ==
  /\ p \in disconnectionTimers
  /\ Apply(forfeitTimer(Cur, p))
  /\ UNCHANGED lastOp

ResponseTimer(h) ==
  /\ h \in timers
  /\ \E s2 \in responseTimer(Cur, h) : (Apply(s2) /\ Did("responseTimer"))

\* ------------------------------------------------------------------ inputs
TargetsOf(action) == IF action \in TargetedActions THEN Players ELSE {NoPlayer}

\* the block cards a client offers: the blocker list of the pending action
BlockCardsOffered ==
  IF actionInProgress.action # "null" /\ actionInProgress.blocker # {}
  THEN actionInProgress.blocker ELSE {"Duke"}

Responses ==
  {[type |-> "pass", blockCard |-> NoCard], [type |-> "challenge", blockCard |-> NoCard]}
    \cup {[type |-> "block", blockCard |-> c] : c \in BlockCardsOffered}

\* the index lists a player in exchange mode may send; any other player's
\* message is rejected whatever it lists
KeepChoices(p) == IF players[p].mustChooseExchange THEN [1..2 -> 1..4] ELSE {<<1, 2>>}

\* the intents of the players and the response timers; a run declares at most
\* limit actions
Declare(limit, acts) ==
  /\ turns < limit
  /\ \E p \in Players, a \in acts : \E t \in TargetsOf(a) : PerformAction(p, a, t)

Play ==
  \/ \E p \in Players, r \in Responses : RespondToAction(p, r)
  \/ \E p \in Players : ChallengeBlock(p)
  \/ \E p \in Players, k \in 1..2 : RevealInfluence(p, k)
  \/ \E p \in Players : \E keep \in KeepChoices(p) : CompleteExchange(p, keep)
  \/ \E p \in Players, k \in 1..2 : ShowCardToExaminer(p, k)
  \/ \E p \in Players, f \in BOOLEAN : CompleteExamine(p, f)
  \/ \E h \in timers : ResponseTimer(h)

Network ==
  \/ \E p \in Players : LeaveRoom(p)
  \/ \E p \in Players : Disconnect(p)
  \/ \E p \in Players : AttemptReconnect(p)
  \/ \E p \in Players : ForfeitTimer(p)

\* a room of NumPlayers players, either variant, one declared action
Init == \E v \in BOOLEAN : InitRoom(createRoom(v, NumPlayers))
Next == StartGame \/ Declare(MaxTurns, ActionNames) \/ Play
Spec == Init /\ [][Next]_vars

\* a room whose players leave, lose their connection and come back
NetActions == {"foreignAid", "tax", "steal"}
InitNet == InitRoom(createRoom(FALSE, NumPlayers))
NextNet == StartGame \/ Declare(NetTurns, NetActions) \/ Play \/ Network
SpecNet == InitNet /\ [][NextNet]_vars

\* the same room over two turns of stealing
StealActions == {"steal"}
NextSteal == StartGame \/ Declare(StealTurns, StealActions) \/ Play \/ Network
SpecSteal == InitNet /\ [][NextSteal]_vars

\* the room one round into the game: every player has taken income once and
\* holds the three coins an assassination costs
RECURSIVE IncomeRound(_, _)
IncomeRound(s, p) ==
  IF p \notin Seats(s) THEN s
  ELSE IncomeRound(CHOOSE x \in performAction(s, p, "income", NoPlayer) : TRUE, p + 1)

MidGame ==
  LET r == createRoom(FALSE, NumPlayers)
  IN [IncomeRound(startGame(r, DealHands(r)), 1) EXCEPT !.turns = 0]

AssassinActions == {"assassinate", "foreignAid"}
InitAssassin == InitRoom(MidGame)
NextAssassin == Declare(AssassinTurns, AssassinActions) \/ Play \/ Network
SpecAssassin == InitAssassin /\ [][NextAssassin]_vars

\* the room when every player has saved the seven coins of a coup
RECURSIVE IncomeRounds(_, _)
IncomeRounds(s, n) == IF n = 0 THEN s ELSE IncomeRounds(IncomeRound(s, 1), n - 1)

Wealthy ==
  LET r == createRoom(FALSE, NumPlayers)
  IN [IncomeRounds(startGame(r, DealHands(r)), Actions["coup"].cost - 2) EXCEPT !.turns = 0]

CoupActions == {"assassinate", "coup"}
InitCoup == InitRoom(Wealthy)
NextCoup == Declare(CoupTurns, CoupActions) \/ Play
SpecCoup == InitCoup /\ [][NextCoup]_vars

\* the room one round into the game, over two turns of stealing and
\* assassinating: the players have just the coins an assassination costs
TightActions == {"steal", "assassinate"}
NextTight == Declare(CoupTurns, TightActions) \/ Play
SpecTight == InitAssassin /\ [][NextTight]_vars

\* the room when every player has saved nine coins, or the ten from which
\* a coup is mandatory; one declared action of any kind
Rich(n) ==
  LET r == createRoom(FALSE, NumPlayers)
  IN [IncomeRounds(startGame(r, DealHands(r)), n) EXCEPT !.turns = 0]

InitRich == \E n \in {MandatoryCoup - 3, MandatoryCoup - 2} : InitRoom(Rich(n))
NextRich == Declare(MaxTurns, ActionNames) \/ Play
SpecRich == InitRich /\ [][NextRich]_vars

\* ------------------------------------------------------------- properties
RECURSIVE CardsInHands(_, _)
CardsInHands(pls, p) ==
  IF p \notin DOMAIN pls THEN 0 ELSE Len(pls[p].influences) + CardsInHands(pls, p + 1)

\* C1: in a room that is 'playing', after every operation, the size of the
\* deck plus the number of influences of all players is 15.
C1_CardConservation ==
  state = "playing" => DeckSize(deck) + CardsInHands(players, 1) = 15

\* C2: in a room that is 'playing', a player is alive if and only if at
\* least one of its influences is unrevealed.
C2_AliveIffUnrevealed ==
  state = "playing" =>
    \A p \in Players : players[p].alive <=> (Unrevealed(players[p]) # {})

\* the room is busy: an action is pending or a player owes a reveal, an
\* exchange choice, a card to show or an examine decision
Busy == actionInProgress # NoAction \/ AnyObligation(Cur)

\* C3: while an action is pending or any of the four obligations is set,
\* performAction is rejected, whoever sends it and whatever it names (a
\* rejected performAction returns before it writes anything), so an action
\* is only ever declared from the idle state.
C3_MutualExclusion ==
  Busy => \A p \in Players, a \in ActionNames, t \in Players \cup {NoPlayer} :
            performActionError(Cur, p, a, t) # "ok"

\* the player to move asks for income while an action is pending, and is refused
C3_Witness ==
  /\ actionInProgress # NoAction
  /\ Connected(currentPlayerIndex)
  /\ performActionError(Cur, currentPlayerIndex, "income", NoPlayer) = "Action already in progress"

\* the rooms that differ from s in one value hidden from observer: the role
\* of an unrevealed influence, of a drawn exchange card or of the examined
\* card of another player
HiddenVariants(s, observer) ==
  UNION { { [s EXCEPT !.players[q].influences[k].card = c] :
              k \in Unrevealed(s.players[q]), c \in Roles }
          \cup { [s EXCEPT !.players[q].exchangeCards[k] = c] :
                   k \in 1..Len(s.players[q].exchangeCards), c \in Roles }
          \cup { [s EXCEPT !.players[q].examinedCard = c] : c \in Roles \cup {NoCard} }
          : q \in Seats(s) \ {observer} }

\* C4: the view of an observer who is a player is the same in two rooms that
\* differ only in the role of an unrevealed influence, of a drawn exchange
\* card or of the examined card of another player; the owner's view carries
\* the owner's influences, drawn cards and examined card, and a spectator's
\* view carries the role of every influence.
C4_InformationHiding ==
  /\ \A observer \in Players : \A s2 \in HiddenVariants(Cur, observer) :
        getPublicGameState(s2, observer, FALSE) = getPublicGameState(Cur, observer, FALSE)
  /\ \A p \in Players :
        LET mine == getPublicGameState(Cur, p, FALSE).players[p] IN
          /\ mine.influences = players[p].influences
          /\ mine.exchangeCards = players[p].exchangeCards
          /\ mine.examinedCard = players[p].examinedCard
  /\ \A p \in Players :
        getPublicGameState(Cur, NoPlayer, TRUE).players[p].influences = players[p].influences

\* a player holds face-down influences and drawn exchange cards: the owner's
\* view shows the drawn cards, another player's view shows neither
C4_Witness ==
  \E q \in Players, observer \in Players :
    /\ q # observer
    /\ players[q].mustChooseExchange
    /\ Len(players[q].exchangeCards) > 0
    /\ Unrevealed(players[q]) # {}
    /\ getPublicGameState(Cur, q, FALSE).players[q].exchangeCards = players[q].exchangeCards
    /\ getPublicGameState(Cur, observer, FALSE).players[q].exchangeCards = <<>>
    /\ \A k \in Unrevealed(players[q]) :
         getPublicGameState(Cur, observer, FALSE).players[q].influences[k] = FaceDown

RevealedCount(pl) == Cardinality({k \in 1..Len(pl.influences) : pl.influences[k].revealed})
UnrevealedCount(pl) == Cardinality(Unrevealed(pl))

\* C5: during a game no operation lowers the number of revealed influences
\* of a player or raises the number of unrevealed ones.
C5_RevealedStaysRevealed ==
  [][ state = "playing" =>
        \A p \in Players :
          /\ RevealedCount(players'[p]) >= RevealedCount(players[p])
          /\ UnrevealedCount(players'[p]) <= UnrevealedCount(players[p]) ]_vars

\* the role an action claims in the variant of the room
ClaimedRole(action) ==
  CASE action = "tax" -> "Duke"
    [] action = "assassinate" -> "Assassin"
    [] action = "steal" -> "Captain"
    [] action = "exchange" -> IF useInquisitor THEN "Inquisitor" ELSE "Ambassador"
    [] action = "examine" -> "Inquisitor"
    [] OTHER -> NoCard

\* the step applies the effect of the pending action a
EffectApplied(a) ==
  LET actor == a.playerId
      target == a.targetId
  IN CASE a.action = "tax" -> players'[actor].coins = players[actor].coins + 3
       [] a.action = "foreignAid" -> players'[actor].coins = players[actor].coins + 2
       [] a.action = "steal" ->
            players'[actor].coins =
              players[actor].coins + (IF target # actor THEN Min(2, players[target].coins) ELSE 0)
       [] a.action = "assassinate" ->
            /\ players'[actor].coins = players[actor].coins - 3
            /\ Unrevealed(players[target]) # {} => players'[target].mustRevealInfluence
       [] a.action = "exchange" -> players'[actor].mustChooseExchange
       [] a.action = "examine" ->
            Unrevealed(players[target]) # {} => players'[actor].mustChooseExamine
       [] OTHER -> TRUE

\* the step cancels the pending action a: it is cleared, no coins move and
\* nobody enters an exchange or an examination
Cancelled(a) ==
  /\ actionInProgress' = NoAction
  /\ \A q \in Players :
       /\ players'[q].coins = players[q].coins
       /\ ~players'[q].mustChooseExchange
       /\ ~players'[q].mustChooseExamine
       /\ ~players'[q].mustShowCardToExaminer

Challenge == [type |-> "challenge", blockCard |-> NoCard]

\* C6: when a pending challengeable action is challenged, the challenger gets
\* the reveal obligation and the effect is applied if the actor holds an
\* unrevealed card of the role the action claims in the variant of the room;
\* otherwise the actor gets the reveal obligation and the action is
\* cancelled with no effect and no coins spent.
C6_ChallengeOfAction ==
  [][ \A p \in Players :
        LET a == actionInProgress IN
        ( /\ a # NoAction
          /\ a.phase = "waiting"
          /\ a.canChallenge
          /\ respondToActionError(Cur, p, Challenge) = "ok"
          /\ RespondToAction(p, Challenge) )
        => IF HasCard(players[a.playerId], ClaimedRole(a.action))
           THEN /\ players'[p].mustRevealInfluence
                /\ players'[p].influencesToLose = players[p].influencesToLose + 1
                /\ EffectApplied(a)
           ELSE /\ players'[a.playerId].mustRevealInfluence
                /\ Cancelled(a) ]_vars

\* the step is an accepted challengeBlock of p
BlockChallenged(p) == challengeBlockError(Cur, p) = "ok" /\ ChallengeBlock(p)

Pass == [type |-> "pass", blockCard |-> NoCard]

\* the seat the turn passes to: the first living player after the current one
NextLiving ==
  LET n == Cardinality(Players)
      seat(k) == ((currentPlayerIndex - 1 + k) % n) + 1
      living == {k \in 1..n : players[seat(k)].alive}
  IN IF living = {} THEN seat(1)
     ELSE seat(CHOOSE k \in living : \A j \in living : k <= j)

\* the step is the pass of p, the last eligible challenger of a block
LastBlockPass(p) ==
  /\ actionInProgress # NoAction
  /\ actionInProgress.phase = "block"
  /\ respondToActionError(Cur, p, Pass) = "ok"
  /\ pendingResponses \ {p} = {}
  /\ RespondToAction(p, Pass)

\* the step is the block-phase timer of the pending action firing
BlockTimerFires(h) ==
  /\ actionInProgress # NoAction
  /\ actionInProgress.phase = "block"
  /\ h.src \in {"handleBlock", "resumeBlock"}
  /\ h.act = actionInProgress.serial
  /\ ResponseTimer(h)

\* the step leaves every player its coins and its influences
NothingMoves ==
  \A q \in Players :
    /\ players'[q].coins = players[q].coins
    /\ players'[q].influences = players[q].influences
    /\ players'[q].mustRevealInfluence = players[q].mustRevealInfluence
    /\ players'[q].influencesToLose = players[q].influencesToLose

\* the step lets the block stand
BlockStands ==
  /\ actionInProgress' = NoAction
  /\ NothingMoves
  /\ currentPlayerIndex' = NextLiving

\* a living player other than the blocker has lost its connection
DisconnectedChallenger ==
  \E q \in Players :
    players[q].alive /\ q # actionInProgress.blockerId /\ players[q].disconnected

\* C8 as stated: once every eligible challenger of a block has passed, or the
\* block-phase timer fires, the pending action is cleared, no coins or
\* influences change and the turn advances.
C8_BlockStands ==
  [][ /\ \A p \in Players : LastBlockPass(p) => BlockStands
      /\ \A h \in timers : BlockTimerFires(h) => BlockStands ]_vars

\* C8, amended: the same, unless a living player other than the blocker is
\* disconnected when the last eligible challenger passes: then the action
\* stays pending, paused, and nothing moves.
C8_BlockStandsOrPauses ==
  [][ /\ \A p \in Players :
           LastBlockPass(p) =>
             IF DisconnectedChallenger
             THEN /\ actionInProgress' # NoAction
                  /\ actionInProgress'.pausedForDisconnection
                  /\ actionInProgress'.phase = "block"
                  /\ NothingMoves
                  /\ currentPlayerIndex' = currentPlayerIndex
             ELSE BlockStands
      /\ \A h \in timers : BlockTimerFires(h) => BlockStands ]_vars

\* the last challenger has just passed on a block: the action is gone, every
\* player still has its two coins and the turn is the second player's
C8_Witness ==
  /\ lastOp = [op |-> "pass", phase |-> "block"]
  /\ actionInProgress = NoAction
  /\ currentPlayerIndex = 2
  /\ \A q \in Players : players[q].coins = 2 /\ ~players[q].mustRevealInfluence

\* the step is the pass of p, the last player of pendingResponses, on an
\* action in phase waiting
LastPass(p) ==
  /\ actionInProgress # NoAction
  /\ actionInProgress.phase = "waiting"
  /\ respondToActionError(Cur, p, Pass) = "ok"
  /\ pendingResponses \ {p} = {}
  /\ RespondToAction(p, Pass)

\* the step is the response timer of the pending action firing in phase waiting
WaitingTimerFires(h) ==
  /\ actionInProgress # NoAction
  /\ actionInProgress.phase = "waiting"
  /\ h.src \in {"performAction", "resumeWaiting"}
  /\ h.act = actionInProgress.serial
  /\ ResponseTimer(h)

\* the step applies the effect of the pending action and clears it; after a
\* tax the turn is the next living player's
Resolved ==
  /\ EffectApplied(actionInProgress)
  /\ actionInProgress' = NoAction
  /\ \A q \in Players \ {actionInProgress.playerId, actionInProgress.targetId} :
       players'[q].coins = players[q].coins
  /\ actionInProgress.action = "tax" => currentPlayerIndex' = NextLiving

\* the target of the pending action has lost its connection
DisconnectedTarget ==
  /\ actionInProgress.targetId # NoPlayer
  /\ players[actionInProgress.targetId].disconnected

\* C9 as stated: for a pending action in phase waiting, once every player of
\* pendingResponses has passed, or its response timer fires, the effect is
\* applied once, the action is cleared, and after a tax the actor has 3 coins
\* more and the turn is the next living player's.
C9_PassOrTimeoutResolves ==
  [][ /\ \A p \in Players : LastPass(p) => Resolved
      /\ \A h \in timers : WaitingTimerFires(h) => Resolved ]_vars

\* C9, amended: the same, unless the target of the action is disconnected
\* when the last player of pendingResponses passes: then the action stays
\* pending in phase waiting, paused, and no effect is applied.
C9_PassOrTimeoutResolvesOrPauses ==
  [][ /\ \A p \in Players :
           LastPass(p) =>
             IF DisconnectedTarget
             THEN /\ actionInProgress' # NoAction
                  /\ actionInProgress'.pausedForDisconnection
                  /\ actionInProgress'.phase = "waiting"
                  /\ NothingMoves
                  /\ currentPlayerIndex' = currentPlayerIndex
             ELSE Resolved
      /\ \A h \in timers : WaitingTimerFires(h) => Resolved ]_vars

\* everybody has just passed on the tax of the first player: the action is
\* gone, the first player has five coins and the turn is the second player's
C9_Witness ==
  /\ lastOp = [op |-> "pass", phase |-> "waiting"]
  /\ actionInProgress = NoAction
  /\ players[1].coins = 5
  /\ \A q \in Players \ {1} : players[q].coins = 2
  /\ currentPlayerIndex = 2

\* the step is timer h firing after the action it was started for is gone
StaleTimerFires(h) ==
  /\ actionInProgress = NoAction \/ actionInProgress.serial # h.act
  /\ ResponseTimer(h)

\* C10: a response timer started for one action never resolves another
\* action: once the action it was started for has been resolved or cleared,
\* its firing changes no player, no pending action, no turn and no deck.
C10_NoStaleTimerResolution ==
  [][ \A h \in timers :
        StaleTimerFires(h) =>
          /\ players' = players
          /\ actionInProgress' = actionInProgress
          /\ pendingResponses' = pendingResponses
          /\ currentPlayerIndex' = currentPlayerIndex
          /\ deck' = deck ]_vars

\* the pending Foreign Aid waits for q: q is still to respond and has lost
\* its connection without having been forfeited
WaitsFor(q) ==
  /\ actionInProgress # NoAction
  /\ actionInProgress.action = "foreignAid"
  /\ actionInProgress.phase = "waiting"
  /\ q \in pendingResponses
  /\ players[q].disconnected
  /\ ~players[q].hasLeft

\* C11: while a player who is still to respond to a pending Foreign Aid in
\* phase waiting is disconnected and not forfeited, the response timer does
\* not act and the action is not resolved: no step that leaves the player
\* disconnected gives the actor its coins, and a timer firing leaves the
\* pending action as it is.
C11_DisconnectedResponderPauses ==
  [][ \A q \in Players :
        ( WaitsFor(q) /\ players'[q].disconnected /\ ~players'[q].hasLeft )
        => /\ players'[actionInProgress.playerId].coins = players[actionInProgress.playerId].coins
           /\ \A h \in timers : ResponseTimer(h) => actionInProgress' = actionInProgress ]_vars

\* the target of the pending steal or assassination, in phase waiting and
\* declared by another player, is disconnected and not forfeited, before the
\* step and after it
TargetStaysAway ==
  LET a == actionInProgress IN
  /\ a # NoAction
  /\ a.action \in {"steal", "assassinate"}
  /\ a.phase = "waiting"
  /\ a.targetId # NoPlayer
  /\ a.targetId # a.playerId
  /\ players[a.targetId].disconnected /\ ~players[a.targetId].hasLeft
  /\ players'[a.targetId].disconnected /\ ~players'[a.targetId].hasLeft

\* C12: while the target of a pending steal or assassination is disconnected
\* and not forfeited, no step applies the effect to it: the target keeps its
\* coins and gets no influence to lose, whatever the other players do.
C12_NoEffectOnDisconnectedTarget ==
  [][ TargetStaysAway =>
        LET t == actionInProgress.targetId IN
        /\ players'[t].coins = players[t].coins
        /\ players'[t].influencesToLose = players[t].influencesToLose
        /\ players'[t].mustRevealInfluence = players[t].mustRevealInfluence ]_vars

\* A room nobody leaves: players lose their connection and come back or are
\* forfeited by the grace timer.  The timers of the room are setTimeout
\* callbacks: one that is not cancelled fires.  A connected player whose
\* pass the room would accept sends it in the end.
NextGrace ==
  \/ StartGame
  \/ Declare(NetTurns, NetActions)
  \/ Play
  \/ \E p \in Players : Disconnect(p)
  \/ \E p \in Players : AttemptReconnect(p)
  \/ \E p \in Players : ForfeitTimer(p)
SpecGrace ==
  /\ InitNet
  /\ [][NextGrace]_vars
  /\ WF_vars(\E h \in timers : ResponseTimer(h))
  /\ WF_vars(\E p \in Players : ForfeitTimer(p))
  /\ WF_vars(\E p \in Players : RespondToAction(p, Pass))

\* the pending action is paused for a disconnection
Paused == actionInProgress # NoAction /\ actionInProgress.pausedForDisconnection

\* every player who lost its connection has come back or has been forfeited
NobodyAway == \A q \in Players : players[q].disconnected => players[q].hasLeft

\* C13: a paused action is eventually resolved: once every disconnected
\* player has reconnected or been forfeited, the paused action eventually
\* leaves the pending state.
C13_PausedEventuallyResolved ==
  (Paused /\ NobodyAway) ~> (actionInProgress = NoAction)

\* the step forfeits p: p leaves the game for good with all its cards shown
Forfeited(p) ==
  /\ ~players[p].hasLeft
  /\ players'[p].hasLeft

\* C14: a player who has reconnected is never forfeited because of the
\* disconnect: no forfeit timer is pending for a connected player, and the
\* only step that makes a connected player leave the game with its cards
\* shown is that player leaving the room.
C14_ReconnectCancelsForfeit ==
  /\ [](\A p \in Players : p \in disconnectionTimers => players[p].disconnected)
  /\ [][ \A p \in Players : (Connected(p) /\ Forfeited(p)) => LeaveRoom(p) ]_vars

\* a player lost its connection and came back: the game goes on with every
\* player connected, alive, holding two hidden cards, and no forfeit pending
C14_Witness ==
  /\ state = "playing"
  /\ disconnects = 1
  /\ disconnectionTimers = {}
  /\ \A p \in Players :
       /\ Connected(p)
       /\ players[p].alive
       /\ Unrevealed(players[p]) = {1, 2}

\* the pending steal or assassination was paused for its target, has been
\* resumed by the target's reconnection, and its resume timer has not fired
ResumedForTarget ==
  LET a == actionInProgress IN
  /\ a # NoAction
  /\ a.action \in {"steal", "assassinate"}
  /\ a.phase = "waiting"
  /\ ~a.pausedForDisconnection
  /\ a.responseTimeout.src = "resumeWaiting"
  /\ a.responseTimeout \in timers
  /\ a.targetId # a.playerId
  /\ players[a.targetId].alive
  /\ Connected(a.targetId)

\* C15: when a steal or assassination declared on a disconnected target has
\* been resumed by the target's reconnection, a pass, a challenge or a block
\* the target sends before the timer fires is accepted.
C15_ResumedTargetMayRespond ==
  ResumedForTarget =>
    \A r \in Responses : respondToActionError(Cur, actionInProgress.targetId, r) = "ok"

\* the step puts a player under the obligation to reveal one more influence,
\* the effect of an assassination or of a coup, if it has one to reveal
Struck(t) ==
  Unrevealed(players[t]) # {} =>
    /\ players'[t].mustRevealInfluence
    /\ players'[t].influencesToLose > players[t].influencesToLose

\* the step cancels the pending assassination: a challenge against an actor
\* without the Assassin, the last pass on a block, the block timer, or a
\* challenge of the block against a blocker holding the card
CancelsAssassination ==
  LET a == actionInProgress IN
  \/ \E p \in Players :
       /\ a.phase = "waiting"
       /\ respondToActionError(Cur, p, Challenge) = "ok"
       /\ ~HasCard(players[a.playerId], "Assassin")
       /\ RespondToAction(p, Challenge)
  \/ \E p \in Players : LastBlockPass(p)
  \/ \E h \in timers : BlockTimerFires(h)
  \/ \E p \in Players :
       /\ a.phase = "block"
       /\ challengeBlockError(Cur, p) = "ok"
       /\ HasCard(players[a.blockerId], a.blockCard)
       /\ ChallengeBlock(p)

\* C16: costs are charged only at the effect.  A step that makes an
\* assassination or a coup pending changes no coins; while an assassination
\* is pending the actor's coins change only by the 3 coins of its cost, in
\* the step that clears the action and strikes the target; a step that
\* cancels it leaves the actor's coins as they are; and a player with no
\* action pending pays only the 7 coins of a coup, in the step that strikes
\* its target.
C16_CostsChargedAtEffect ==
  [][ /\ ( actionInProgress = NoAction /\ actionInProgress' # NoAction )
         => \A p \in Players : players'[p].coins = players[p].coins
      /\ ( actionInProgress # NoAction /\ actionInProgress.action = "assassinate" )
         => LET a == actionInProgress IN
            /\ players'[a.playerId].coins # players[a.playerId].coins
                 => /\ players'[a.playerId].coins = players[a.playerId].coins - 3
                    /\ actionInProgress' = NoAction
                    /\ Struck(a.targetId)
            /\ CancelsAssassination
                 => /\ players'[a.playerId].coins = players[a.playerId].coins
                    /\ actionInProgress' = NoAction
      /\ actionInProgress = NoAction
         => \A p \in Players :
              players'[p].coins < players[p].coins
                => /\ players'[p].coins = players[p].coins - 7
                   /\ \E t \in Players : Struck(t) ]_vars

\* the block of an assassination has just been left standing: the action is
\* gone and the first player, who declared it, still has its seven coins
C16_Witness ==
  /\ lastOp = [op |-> "pass", phase |-> "block"]
  /\ actionInProgress = NoAction
  /\ turns = 1
  /\ currentPlayerIndex = 2
  /\ players[1].coins = 7

C18_MandatoryCoup ==
  \A p \in Players :
    (p = currentPlayerIndex /\ players[p].coins >= MandatoryCoup) =>
      \A a \in ActionNames \ {"coup"}, t \in Players \cup {NoPlayer} :
        performActionError(Cur, p, a, t) # "ok"

\* the current player holds ten coins, nothing is pending, and its income is
\* refused because it must coup
C18_Witness ==
  /\ players[currentPlayerIndex].coins = MandatoryCoup
  /\ performActionError(Cur, currentPlayerIndex, "income", NoPlayer) = "Must coup with 10+ coins"
  /\ performActionError(Cur, currentPlayerIndex, "coup", 2) = "ok"

\* a target the claim calls invalid for p: none, nobody of the room, an
\* eliminated player, or p itself
InvalidTarget(p, t) ==
  \/ t \notin Players
  \/ t = p
  \/ ~players[t].alive

\* C19: performAction for steal, assassinate, coup or examine is rejected
\* when the target is missing, is not a player of the room, is an eliminated
\* player, or is the declarer.
C19_InvalidTargetsRejected ==
  state = "playing" =>
    \A p \in Players, a \in TargetedActions, t \in 0..(Cardinality(Players) + 1) :
      InvalidTarget(p, t) => performActionError(Cur, p, a, t) # "ok"

\* the step makes the pending steal take effect: the last pending player
\* passes, the response timer fires, a challenge sent through respondToAction
\* (in either phase) fails against an actor holding the Captain, or the
\* block is challenged and was a bluff
StealTakesEffect ==
  LET a == actionInProgress IN
  \/ \E p \in Players : LastPass(p)
  \/ \E h \in timers : WaitingTimerFires(h)
  \/ \E p \in Players :
       /\ respondToActionError(Cur, p, Challenge) = "ok"
       /\ HasCard(players[a.playerId], "Captain")
       /\ RespondToAction(p, Challenge)
  \/ \E p \in Players :
       /\ a.phase = "block"
       /\ challengeBlockError(Cur, p) = "ok"
       /\ ~HasCard(players[a.blockerId], a.blockCard)
       /\ ChallengeBlock(p)

\* C20: when a steal takes effect exactly min(2, target.coins) coins leave
\* the target and reach the actor (a player stealing from itself ends with
\* what it had), nobody else's coins change and the sum is unchanged; a
\* target with 1 coin loses exactly 1.  While a steal is pending coins move
\* in no other step.
C20_StealMovesMinTwo ==
  [][ ( actionInProgress # NoAction /\ actionInProgress.action = "steal" ) =>
        LET a == actionInProgress
            actor == a.playerId
            t == a.targetId
            stolen == IF players[t].coins < 2 THEN players[t].coins ELSE 2
        IN /\ StealTakesEffect =>
                /\ actionInProgress' = NoAction
                /\ IF t = actor
                   THEN players'[actor].coins = players[actor].coins
                   ELSE /\ players'[t].coins = players[t].coins - stolen
                        /\ players'[actor].coins = players[actor].coins + stolen
                        /\ players'[t].coins + players'[actor].coins
                             = players[t].coins + players[actor].coins
                        /\ players[t].coins = 1 => players'[t].coins = 0
                /\ \A q \in Players \ {actor, t} : players'[q].coins = players[q].coins
           /\ (\E q \in Players : players'[q].coins # players[q].coins) => StealTakesEffect ]_vars

\* the third player, left with one coin by the steal of the first, has been
\* robbed of exactly that coin by the second
C20_Witness ==
  /\ turns = 2
  /\ actionInProgress = NoAction
  /\ players[1].coins = 5
  /\ players[2].coins = 4
  /\ players[3].coins = 0

\* the room after a lost challenge: the first player has taken tax, the
\* second has challenged it and, the Duke shown, has revealed its first card;
\* the turn is the second player's, who holds one unrevealed influence
TaxDeclared ==
  LET r == createRoom(FALSE, NumPlayers)
  IN CHOOSE d \in performAction(startGame(r, DealHands(r)), 1, "tax", NoPlayer) : TRUE
TaxChallenged == CHOOSE c \in respondToAction(TaxDeclared, 2, Challenge) : TRUE
AfterLostChallenge == [revealInfluence(TaxChallenged, 2, 1) EXCEPT !.turns = 0]

ExchangeActions == {"tax", "exchange"}
InitExchange == InitRoom(AfterLostChallenge)
NextExchange == Declare(MaxTurns, ExchangeActions) \/ Play
SpecExchange == InitExchange /\ [][NextExchange]_vars

\* the keep lists a client can send: up to three indices among the four
\* cards an exchange can offer
KeepLists == UNION { [1..n -> 1..4] : n \in 0..3 }

\* the step puts p in exchange mode: the exchange draws its cards
EntersExchange(p) == ~players[p].mustChooseExchange /\ players'[p].mustChooseExchange

\* C21: completeExchange succeeds only when the number of kept cards equals
\* the number of unrevealed influences the actor held before drawing: from
\* the step that draws the cards on, a keep list with fewer or more entries
\* is rejected.
C21_ExchangeKeepCount ==
  [][ \A p \in Players :
        EntersExchange(p) =>
          \A keep \in KeepLists :
            completeExchangeError(Cur', p, keep) = "ok"
              => Len(keep) = UnrevealedCount(players[p]) ]_vars

\* the room after an exchange that kept one card twice: the first player has
\* exchanged, nobody responded, and it answered completeExchange with the
\* index of its Duke twice; the turn is the second player's
ExchangeDrawn ==
  LET r == createRoom(FALSE, NumPlayers)
      declared == CHOOSE d \in performAction(startGame(r, DealHands(r)), 1, "exchange", NoPlayer) : TRUE
  IN CHOOSE x \in responseTimer(declared, declared.responseTimeout) : TRUE
AfterDoubleKeep == [completeExchange(ExchangeDrawn, 1, <<1, 1>>) EXCEPT !.turns = 0]

AliasActions == {"foreignAid", "tax"}
InitAlias == InitRoom(AfterDoubleKeep)
NextAlias == Declare(MaxTurns, AliasActions) \/ Play
SpecAlias == InitAlias /\ [][NextAlias]_vars

\* the copies of role c in the deck and in the hands of room s
RECURSIVE CopiesInHands(_, _, _)
CopiesInHands(s, c, p) ==
  IF p \notin Seats(s) THEN 0
  ELSE Cardinality({k \in 1..Len(s.players[p].influences) : s.players[p].influences[k].card = c})
         + CopiesInHands(s, c, p + 1)
Copies(s, c) == s.deck[c] + CopiesInHands(s, c, 1)

\* room x is room s after holder has returned card to the deck and drawn one
RoundTrip(s, x, holder, card) ==
  /\ DeckSize(x.deck) = DeckSize(s.deck)
  /\ x.deck[card] >= 1
  /\ \A q \in Seats(s) :
       /\ Len(x.players[q].influences) = Len(s.players[q].influences)
       /\ UnrevealedCount(x.players[q]) = UnrevealedCount(s.players[q])
       /\ q # holder => x.players[q].influences = s.players[q].influences
  /\ Cardinality({k \in 1..Len(s.players[holder].influences) :
                    x.players[holder].influences[k] # s.players[holder].influences[k]}) <= 1
  /\ \A c \in Roles : Copies(x, c) = Copies(s, c)

\* p's challenge of the pending action is accepted and the actor holds the card
ActorProves(p) ==
  /\ actionInProgress # NoAction
  /\ respondToActionError(Cur, p, Challenge) = "ok"
  /\ HasCard(players[actionInProgress.playerId], Actions[actionInProgress.action].card)

\* p's challenge of the block is accepted and the blocker holds the card
BlockerProves(p) ==
  /\ challengeBlockError(Cur, p) = "ok"
  /\ HasCard(players[actionInProgress.blockerId], actionInProgress.blockCard)

\* C22: when a challenged actor or blocker proves the claimed role, the role
\* goes into the deck once and the holder gets one card drawn from the deck:
\* the deck size, every influence count and the number of copies of every
\* role over the deck and all hands are what they were.
C22_CardReturnRoundTrip ==
  \A p \in Players :
    /\ ActorProves(p) =>
         LET holder == actionInProgress.playerId
             card == Actions[actionInProgress.action].card
         IN \A x \in SwapWithDeck(Cur, holder, card) : RoundTrip(Cur, x, holder, card)
    /\ BlockerProves(p) =>
         LET holder == actionInProgress.blockerId
             card == actionInProgress.blockCard
         IN \A x \in SwapWithDeck(Cur, holder, card) : RoundTrip(Cur, x, holder, card)

\* p has passed on the pending action
HasPassed(p) ==
  /\ actionInProgress # NoAction
  /\ actionInProgress.responses[p] = "pass"

\* C23: when a player who has passed on the pending action sends a second
\* pass, respondToAction answers with the 'Already responded' error (and a
\* rejected response leaves the outstanding responders and the responded
\* count as they are).
C23_DuplicatePassRejected ==
  \A p \in Players :
    HasPassed(p) => respondToActionError(Cur, p, Pass) = "Already responded"

\* a steal or an assassination of another player is pending
TargetedBlockable ==
  /\ actionInProgress # NoAction
  /\ actionInProgress.action \in {"steal", "assassinate"}
  /\ actionInProgress.targetId # actionInProgress.playerId

\* q may still answer the pending action: living, connected, not the actor,
\* and it has not answered yet
MayChallenge(q) ==
  /\ actionInProgress.phase = "waiting"
  /\ q # actionInProgress.playerId
  /\ players[q].alive
  /\ Connected(q)
  /\ actionInProgress.responses[q] = "none"

\* C24: for a pending steal or assassination a block from any player other
\* than the target is rejected, and a challenge is accepted from every other
\* living, connected player who has not answered yet; in phase waiting the
\* actor's responses are all rejected, and in phase block the blocker's
\* responses and its challenge of the block are all rejected.
C24_OnlyTargetBlocks ==
  /\ TargetedBlockable =>
       /\ \A p \in Players \ {actionInProgress.targetId} : \A r \in Responses :
            r.type = "block" => respondToActionError(Cur, p, r) # "ok"
       /\ \A q \in Players :
            MayChallenge(q) => respondToActionError(Cur, q, Challenge) = "ok"
  /\ actionInProgress # NoAction =>
       /\ actionInProgress.phase = "waiting" =>
            \A r \in Responses : respondToActionError(Cur, actionInProgress.playerId, r) # "ok"
       /\ actionInProgress.phase = "block" =>
            /\ \A r \in Responses : respondToActionError(Cur, actionInProgress.blockerId, r) # "ok"
            /\ challengeBlockError(Cur, actionInProgress.blockerId) # "ok"

\* C25: a challenge sent with respondToAction against a pending action whose
\* challengeable flag is false (foreign aid) is rejected, whoever sends it,
\* so that no response to a foreign aid puts its actor under the obligation
\* to reveal an influence.
C25_ForeignAidNotChallengeable ==
  ( actionInProgress # NoAction /\ ~actionInProgress.canChallenge ) =>
    \A p \in Players : respondToActionError(Cur, p, Challenge) # "ok"

\* a block is pending
InBlockPhase == actionInProgress # NoAction /\ actionInProgress.phase = "block"

\* p was asked to answer the pending block and has answered it
RespondedToBlock(p) ==
  /\ p # actionInProgress.blockerId
  /\ players[p].alive
  /\ p \notin pendingResponses
  /\ actionInProgress.responses[p] # "none"

\* p is an eligible challenger of the pending block
EligibleChallenger(p) ==
  /\ p # actionInProgress.blockerId
  /\ players[p].alive
  /\ Connected(p)
  /\ ~RespondedToBlock(p)

\* C26: in phase block a challenge of the block from an eliminated player,
\* from the blocker or from a player who has already answered the block is
\* rejected, and every living, connected player other than the blocker who
\* has not answered the block, one who passed on the original action
\* included, can pass on the block and can challenge it.
C26_EligibleBlockChallengers ==
  InBlockPhase =>
    \A p \in Players :
      /\ ( p = actionInProgress.blockerId \/ ~players[p].alive \/ RespondedToBlock(p) )
           => challengeBlockError(Cur, p) # "ok"
      /\ EligibleChallenger(p)
           => /\ respondToActionError(Cur, p, Pass) = "ok"
              /\ challengeBlockError(Cur, p) = "ok"

\* C27: nextTurn never changes currentPlayerIndex while a player has
\* mustRevealInfluence, mustChooseExchange, mustShowCardToExaminer or
\* mustChooseExamine set: a step that moves the turn pointer (nextTurn is
\* the last write of every handler that calls it) ends with no obligation
\* outstanding.
C27_ObligationsBlockTurn ==
  [][ currentPlayerIndex' # currentPlayerIndex => ~AnyObligation(Cur') ]_vars

\* the nearest living seat after seat d in circular list order
LivingAfter(d) ==
  LET n == Cardinality(Players)
      seat(k) == ((d - 1 + k) % n) + 1
      living == {k \in 1..n : players[seat(k)].alive}
  IN IF living = {} THEN seat(1)
     ELSE seat(CHOOSE k \in living : \A j \in living : k <= j)

\* the room is playing and idle: no action pending, no obligation outstanding
Idle == state = "playing" /\ actionInProgress = NoAction /\ ~AnyObligation(Cur)

\* C28: once the action a player declared and every obligation it created
\* are cleared, the turn pointer has advanced exactly once, to the nearest
\* living seat after the declarer: after the first declaration of the game
\* round, which is the first seat's, the idle room has the turn at the
\* nearest living seat after the first, so the first seat does not declare
\* twice in a row and no living seat is skipped.
C28_OneActionOneTurnStep ==
  ( Idle /\ turns = 1 ) => currentPlayerIndex = LivingAfter(1)

\* C29: an eliminated player never acts: a player who is not alive stays not
\* alive for the rest of the game, no performAction of a player who is not
\* alive is accepted, and whenever the room is playing with no pending
\* action and no outstanding obligation the seat at currentPlayerIndex is
\* alive.
C29_EliminatedNeverActs ==
  /\ [][ \A p \in Players :
           ( state = "playing" /\ ~players[p].alive ) => ~players'[p].alive ]_vars
  /\ [](\A p \in Players, a \in ActionNames, t \in Players \cup {NoPlayer} :
           performActionError(Cur, p, a, t) = "ok" => players[p].alive)
  /\ [](Idle => players[currentPlayerIndex].alive)

\* the living players of the room
Living == {p \in Players : players[p].alive}

\* C30: a room in state 'playing' always has at least two living players,
\* and the step in which an elimination (by reveal, leave or forfeit) leaves
\* exactly one living player makes the room 'ended' with that player as the
\* recorded winner.
C30_WinCondition ==
  /\ [](state = "playing" => Cardinality(Living) >= 2)
  /\ [][ ( state = "playing" /\ Living' # Living /\ Cardinality(Living') = 1 )
           => ( state' = "ended" /\ Living' = {winnerId'} ) ]_vars

\* the game has ended by a reveal: one player is alive and is the winner, and
\* the player placed second never left the room, it revealed its last card
C30_Witness ==
  /\ state = "ended"
  /\ Living = {winnerId}
  /\ \E p \in Players :
       /\ ~players[p].alive
       /\ ~players[p].hasLeft
       /\ \E i \in 1..Len(eliminationOrder) :
            eliminationOrder[i] = [playerId |-> p, placement |-> 2]

\* the entries of eliminationOrder that name player p
EntriesOf(p) == {i \in 1..Len(eliminationOrder) : eliminationOrder[i].playerId = p}

\* C31: eliminationOrder only grows during play and holds at most one entry
\* per player at all times, also after the game has ended and late forfeit
\* timers fire; when the room is 'ended' it holds exactly one entry per
\* player, with pairwise distinct placements and the winner at placement 1.
C31_PlacementRecord ==
  /\ [][ Len(eliminationOrder') >= Len(eliminationOrder) ]_vars
  /\ [](\A p \in Players : Cardinality(EntriesOf(p)) <= 1)
  /\ [](state = "ended" =>
          /\ \A p \in Players : Cardinality(EntriesOf(p)) = 1
          /\ \A i, j \in 1..Len(eliminationOrder) :
               i # j => eliminationOrder[i].placement # eliminationOrder[j].placement
          /\ \A i \in EntriesOf(winnerId) : eliminationOrder[i].placement = 1)

\* the declarations a client may send: sender, action, target
Declarations == Players \X ActionNames \X (Players \cup {NoPlayer})

\* C32: room.state only moves lobby -> playing -> ended; startGame succeeds
\* only from 'lobby', and performAction and respondToAction are accepted
\* only while the room is 'playing'.
C32_StateLifecycle ==
  /\ [][ state' # state =>
           <<state, state'>> \in {<<"lobby", "playing">>, <<"playing", "ended">>} ]_vars
  /\ [](state # "lobby" => startGameError(Cur) # "ok")
  /\ [](state # "playing" =>
          /\ \A d \in Declarations : performActionError(Cur, d[1], d[2], d[3]) # "ok"
          /\ \A p \in Players, r \in Responses : respondToActionError(Cur, p, r) # "ok")

\* C33: an operation that does not succeed answers {success: false, error}
\* and never throws, whatever the room holds: no intent a client can send
\* (challengeBlock and respondToAction with no action or no block pending
\* included) ends in an exception. The rejected intent leaves the room as it
\* was: the actions take the failing branch with every variable unchanged.
C33_FailureIsAnAnswer ==
  /\ \A d \in Declarations : performActionError(Cur, d[1], d[2], d[3]) # "TypeError"
  /\ \A p \in Players, r \in Responses : respondToActionError(Cur, p, r) # "TypeError"
  /\ \A p \in Players, k \in 1..2 : revealInfluenceError(Cur, p, k) # "TypeError"
  /\ \A p \in Players, k \in 1..2 : showCardToExaminerError(Cur, p, k) # "TypeError"
  /\ \A p \in Players : \A keep \in KeepChoices(p) :
       completeExchangeError(Cur, p, keep) # "TypeError"
  /\ \A p \in Players, f \in BOOLEAN : completeExamineError(Cur, p, f) # "TypeError"
  /\ \A p \in Players : challengeBlockError(Cur, p) # "TypeError"
  /\ startGameError(Cur) # "TypeError"

\* C34: a block is accepted only when the pending action is blockable, is in
\* phase 'waiting', and the card named is one of the action's blocker roles
\* of the variant; a block of tax, exchange or examine, a block with another
\* card and a second block of a blocked action are rejected.
C34_BlockOnlyBlockable ==
  \A p \in Players, c \in Roles :
    respondToActionError(Cur, p, [type |-> "block", blockCard |-> c]) = "ok" =>
      /\ actionInProgress.canBlock
      /\ actionInProgress.phase = "waiting"
      /\ c \in actionInProgress.blocker

\* C35: a challenge in phase 'block' tests the blocker's card, never the
\* actor's claim: while the phase is 'block' no accepted response makes the
\* actor of the action owe an influence for that claim; the actor comes to owe
\* one only as the challenger of a block that turns out to be true (the
\* blocker holds the card the block names).
C35_BlockChallengeTestsBlocker ==
  [][ ( /\ InBlockPhase
        /\ players'[actionInProgress.playerId].influencesToLose
             > players[actionInProgress.playerId].influencesToLose )
      => HasCard(players[actionInProgress.blockerId], actionInProgress.blockCard) ]_vars

\* C36: influence losses stack. When the target of an assassination
\* challenges it and the actor holds the Assassin, the target's
\* influencesToLose becomes 2. mustRevealInfluence stays true until the
\* counter reaches 0 or the player is eliminated; each accepted
\* revealInfluence turns exactly one unrevealed card and lowers the counter
\* by one; a player with mustRevealInfluence has an unrevealed card.
\* (Second conjunct: a challenge of an assassination is accepted in the step
\* and fails, the actor holding the Assassin, and the challenger was the
\* target, nobody else coming to owe an influence. Last conjunct: an accepted
\* revealInfluence of p is the step of a reveal in which p, still in the
\* room, has more cards face up than before.)
C36_StackedLoss ==
  /\ [](\A p \in Players : players[p].mustRevealInfluence =>
           (Unrevealed(players[p]) # {} /\ players[p].influencesToLose >= 1))
  /\ [][ ( /\ actionInProgress # NoAction
           /\ actionInProgress.action = "assassinate"
           /\ actionInProgress.phase = "waiting"
           /\ HasCard(players[actionInProgress.playerId], "Assassin")
           /\ lastOp # [op |-> "challenge", phase |-> "waiting"]
           /\ lastOp' = [op |-> "challenge", phase |-> "waiting"]
           /\ \A q \in Players \ {actionInProgress.targetId} :
                players'[q].influencesToLose = players[q].influencesToLose
           /\ players[actionInProgress.targetId].influencesToLose = 0 )
           => players'[actionInProgress.targetId].influencesToLose = 2 ]_vars
  /\ [][ \A p \in Players :
           (players[p].mustRevealInfluence /\ ~players'[p].mustRevealInfluence)
             => (players'[p].influencesToLose = 0) ]_vars
  /\ [][ \A p \in Players :
           ( /\ lastOp'.op = "revealInfluence"
             /\ RevealedCount(players'[p]) > RevealedCount(players[p])
             /\ ~players'[p].hasLeft ) =>
           /\ players[p].mustRevealInfluence
           /\ RevealedCount(players'[p]) = RevealedCount(players[p]) + 1
           /\ players'[p].alive =>
                players'[p].influencesToLose = players[p].influencesToLose - 1 ]_vars

\* the copies of role c among the card objects of list cards
CopiesHeld(cards, c) == Cardinality({k \in 1..Len(cards) : cards[k].card = c})

\* C37: an accepted completeExchange (the player leaves exchange mode in a
\* step of completeExchange) conserves the cards: role by role, the new
\* influences plus the deck hold what the previous influences, the drawn
\* exchangeCards and the deck held; no keep list duplicates or loses a card,
\* and the influences kept are distinct card instances.
C37_ExchangeConservesCards ==
  [][ \A p \in Players :
        ( /\ players[p].mustChooseExchange
          /\ ~players'[p].mustChooseExchange
          /\ ~players'[p].hasLeft
          /\ lastOp'.op = "completeExchange" )
        => /\ \A c \in Roles :
                CopiesHeld(players'[p].influences, c) + deck'[c]
                  = CopiesHeld(AllCards(players[p]), c) + deck[c]
           /\ ~players'[p].alias ]_vars

\* an accepted completeExamine of player p
CompletesExamine(p) ==
  /\ players[p].mustChooseExamine
  /\ ~players'[p].mustChooseExamine
  /\ ~players'[p].hasLeft
  /\ lastOp'.op = "completeExamine"

\* C38: an examine runs in order. completeExamine is accepted only after
\* the target has shown a card; a forced replacement swaps exactly the shown
\* unrevealed card with a card of the deck (the rest of the target's hand
\* and the size of the deck stay); the turn advances once, with the accepted
\* completeExamine, when both the show and the choose obligation are cleared.
C38_ExamineOrdering ==
  /\ [](\A p \in Players, f \in BOOLEAN :
          completeExamineError(Cur, p, f) = "ok" =>
            ~players[players[p].examineTargetId].mustShowCardToExaminer)
  /\ [][ \A p \in Players : CompletesExamine(p) =>
           /\ DeckSize(deck') = DeckSize(deck)
           /\ \A k \in 1..Len(players[players[p].examineTargetId].influences) :
                players'[players[p].examineTargetId].influences[k]
                    # players[players[p].examineTargetId].influences[k] =>
                  /\ players[p].examinedCardIndexKind = "number"
                  /\ k = players[p].examinedCardIndex
                  /\ ~players[players[p].examineTargetId].influences[k].revealed
                  /\ ~players'[players[p].examineTargetId].influences[k].revealed ]_vars
  /\ [][ \A p \in Players : CompletesExamine(p) =>
           (currentPlayerIndex' # currentPlayerIndex /\ ~AnyObligation(Cur')) ]_vars

\* C39: the room becomes 'ended' at most once per game, so the winner branch
\* of checkWinCondition (the push of the winner into eliminationOrder and
\* saveGameResults) runs at most once, whatever the interleaving, also when
\* the forfeit timer of a player who disconnected before the end fires
\* after it. (Only the winner branch adds an entry for a player it leaves
\* alive: after the end no living player gets a further entry.)
C39_EndsOnce ==
  [][ state = "ended" =>
        /\ state' = "ended"
        /\ winnerId' = winnerId
        /\ \A p \in Living' : Cardinality(EntriesOf(p)') = Cardinality(EntriesOf(p)) ]_vars

\* C40: no deadlock while playing: in every reachable state of a room that
\* is 'playing' some step forward is enabled, so that with fair timers and
\* players who act in the end every game reaches 'ended'. A step forward is
\* an intent of a connected player the room accepts (a declaration, a
\* response to the pending action or a challenge of its block, the discharge
\* of an obligation), a response timer, or a running forfeit timer.
C40_NoDeadlock ==
  state = "playing" =>
    \/ \E d \in Declarations :
          Connected(d[1]) /\ performActionError(Cur, d[1], d[2], d[3]) = "ok"
    \/ \E p \in Players :
          /\ Connected(p)
          /\ \/ \E r \in Responses : respondToActionError(Cur, p, r) = "ok"
             \/ challengeBlockError(Cur, p) = "ok"
             \/ \E k \in 1..2 : revealInfluenceError(Cur, p, k) = "ok"
             \/ \E keep \in KeepLists : completeExchangeError(Cur, p, keep) = "ok"
             \/ \E k \in 1..2 : showCardToExaminerError(Cur, p, k) = "ok"
             \/ \E f \in BOOLEAN : completeExamineError(Cur, p, f) = "ok"
    \/ timers # {}
    \/ disconnectionTimers # {}

====
